---------------------------- MODULE Spec2Model ----------------------------
(***************************************************************************)
(* A model of outdated2 (src/main.rs): the registry client                 *)
(* get_latest_from_repo, the freshness test is_up_to_date, the parallel    *)
(* scan and the aggregation of main, and the Display of CrateOutdated.     *)
(*                                                                         *)
(* Text that the program parses (the "num" and "updated_at" fields of a    *)
(* registry record) is a sequence of one-character strings.  Text that the *)
(* program only builds (the fields of an OutdatedDependency, the rendered  *)
(* report) is a string built with \o.                                      *)
(***************************************************************************)
EXTENDS FiniteSets, Integers, Sequences, TLC

(***************************************************************************)
(* Bounds of the model.                                                    *)
(***************************************************************************)
\* the largest number of version records in a registry response (FetchSpec)
MaxRecords == 3
\* the largest number of dependencies declared in the whole workspace
MaxUnits == 3

(***************************************************************************)
(* Option<T> and Result<T>.                                                *)
(***************************************************************************)
None == [some |-> FALSE]
Some(v) == [some |-> TRUE, val |-> v]
Ok(v) == [ok |-> TRUE, val |-> v]
Err(e) == [ok |-> FALSE, err |-> e]

Range(s) == {s[i] : i \in 1..Len(s)}

\* a sequence of one-character strings as one string
RECURSIVE CharsToString(_)
CharsToString(s) == IF s = <<>> THEN "" ELSE Head(s) \o CharsToString(Tail(s))

(***************************************************************************)
(* semver::Version and Version::parse, as called at main.rs:198 and :203.  *)
(***************************************************************************)
Digits == {"0", "1", "2", "3", "4", "5", "6", "7", "8", "9"}
Letters == {"a", "b", "c", "r", "x"}
IdentChars == Digits \cup Letters \cup {"-"}

DigitVal(c) == CHOOSE n \in 0..9 : ToString(n) = c

\* the index after the run of characters of set cs that starts at s[i]
RECURSIVE RunEnd(_, _, _)
RunEnd(s, i, cs) ==
    IF i <= Len(s) /\ s[i] \in cs THEN RunEnd(s, i + 1, cs) ELSE i

\* the number written by the digits s[i..j-1]
RECURSIVE DigitsValue(_, _, _)
DigitsValue(s, i, j) ==
    IF j <= i THEN 0 ELSE 10 * DigitsValue(s, i, j - 1) + DigitVal(s[j - 1])

\* a numeric identifier at s[i]: a digit run, non-empty, with no leading zero
NumericIdentifier(s, i) ==
    LET j == RunEnd(s, i, Digits)
    IN  IF j = i THEN Err("unexpected character")
        ELSE IF s[i] = "0" /\ j > i + 1 THEN Err("leading zero")
        ELSE Ok([val |-> DigitsValue(s, i, j), next |-> j])

\* a "." at s[i]
DotAt(s, i) == i <= Len(s) /\ s[i] = "."

\* a dot-separated identifier at s[i]: every segment is non-empty, and a
\* segment of digits alone has no leading zero when numeric is TRUE
Identifier(s, i, numeric) ==
    LET j == RunEnd(s, i, IdentChars \cup {"."})
        emptySeg == \/ j = i
                    \/ s[i] = "."
                    \/ s[j - 1] = "."
                    \/ \E k \in i..(j - 2) : s[k] = "." /\ s[k + 1] = "."
        segStart(k) == k = i \/ s[k - 1] = "."
        leadZero == \E k \in i..(j - 1) :
                        /\ segStart(k)
                        /\ s[k] = "0"
                        /\ LET e == RunEnd(s, k, Digits)
                           IN  e > k + 1 /\ (e = j \/ s[e] = ".")
    IN  IF emptySeg THEN Err("empty identifier segment")
        ELSE IF numeric /\ leadZero THEN Err("leading zero")
        ELSE Ok([val |-> SubSeq(s, i, j - 1), next |-> j])

VersionNew(major, minor, patch) ==
    [major |-> major, minor |-> minor, patch |-> patch,
     pre |-> <<>>, build |-> <<>>]

VersionParse(s) ==
    LET ma == NumericIdentifier(s, 1)
    IN  IF ~ma.ok THEN ma
        ELSE IF ~DotAt(s, ma.val.next) THEN Err("expected dot")
        ELSE
        LET mi == NumericIdentifier(s, ma.val.next + 1)
        IN  IF ~mi.ok THEN mi
            ELSE IF ~DotAt(s, mi.val.next) THEN Err("expected dot")
            ELSE
            LET pa == NumericIdentifier(s, mi.val.next + 1)
            IN  IF ~pa.ok THEN pa
                ELSE
                LET base == VersionNew(ma.val.val, mi.val.val, pa.val.val)
                    p == pa.val.next
                    hasPre == p <= Len(s) /\ s[p] = "-"
                    pre == IF hasPre THEN Identifier(s, p + 1, TRUE)
                           ELSE Ok([val |-> <<>>, next |-> p])
                IN  IF ~pre.ok THEN pre
                    ELSE
                    LET b == pre.val.next
                        hasBuild == b <= Len(s) /\ s[b] = "+"
                        build == IF hasBuild THEN Identifier(s, b + 1, FALSE)
                                 ELSE Ok([val |-> <<>>, next |-> b])
                    IN  IF ~build.ok THEN build
                        ELSE IF build.val.next <= Len(s)
                             THEN Err("unexpected character after version")
                        ELSE Ok([base EXCEPT !.pre = pre.val.val,
                                             !.build = build.val.val])

\* Display of semver::Version, as called at main.rs:292
VersionToString(v) ==
    ToString(v.major) \o "." \o ToString(v.minor) \o "." \o ToString(v.patch)
    \o (IF v.pre = <<>> THEN "" ELSE "-" \o CharsToString(v.pre))
    \o (IF v.build = <<>> THEN "" ELSE "+" \o CharsToString(v.build))


(***************************************************************************)
(* semver::VersionReq: a list of comparators, every one of which a version *)
(* has to match.  The requirements of the model carry no pre-release tag.  *)
(***************************************************************************)
Comparator(op, major, minor, patch) ==
    [op |-> op, major |-> major, minor |-> minor, patch |-> patch, pre |-> <<>>]

\* Ord of semver::Prerelease, where the empty tag is the greatest; two
\* non-empty tags are compared for equality only
PreGreater(a, b) == a = <<>> /\ b # <<>>
PreGreaterEq(a, b) == a = b \/ PreGreater(a, b)

MatchesExact(cmp, ver) ==
    /\ ver.major = cmp.major
    /\ cmp.minor.some => ver.minor = cmp.minor.val
    /\ cmp.patch.some => ver.patch = cmp.patch.val
    /\ ver.pre = cmp.pre

MatchesGreater(cmp, ver) ==
    IF ver.major # cmp.major THEN ver.major > cmp.major
    ELSE IF ~cmp.minor.some THEN FALSE
    ELSE IF ver.minor # cmp.minor.val THEN ver.minor > cmp.minor.val
    ELSE IF ~cmp.patch.some THEN FALSE
    ELSE IF ver.patch # cmp.patch.val THEN ver.patch > cmp.patch.val
    ELSE PreGreater(ver.pre, cmp.pre)

MatchesLess(cmp, ver) ==
    IF ver.major # cmp.major THEN ver.major < cmp.major
    ELSE IF ~cmp.minor.some THEN FALSE
    ELSE IF ver.minor # cmp.minor.val THEN ver.minor < cmp.minor.val
    ELSE IF ~cmp.patch.some THEN FALSE
    ELSE IF ver.patch # cmp.patch.val THEN ver.patch < cmp.patch.val
    ELSE PreGreater(cmp.pre, ver.pre)

MatchesTilde(cmp, ver) ==
    IF ver.major # cmp.major THEN FALSE
    ELSE IF cmp.minor.some /\ ver.minor # cmp.minor.val THEN FALSE
    ELSE IF cmp.patch.some /\ ver.patch # cmp.patch.val
         THEN ver.patch > cmp.patch.val
    ELSE PreGreaterEq(ver.pre, cmp.pre)

MatchesCaret(cmp, ver) ==
    IF ver.major # cmp.major THEN FALSE
    ELSE IF ~cmp.minor.some THEN TRUE
    ELSE IF ~cmp.patch.some
         THEN IF cmp.major > 0 THEN ver.minor >= cmp.minor.val
              ELSE ver.minor = cmp.minor.val
    ELSE IF cmp.major > 0 /\ ver.minor # cmp.minor.val
         THEN ver.minor > cmp.minor.val
    ELSE IF cmp.major > 0 /\ ver.patch # cmp.patch.val
         THEN ver.patch > cmp.patch.val
    ELSE IF cmp.major = 0 /\ cmp.minor.val > 0 /\ ver.minor # cmp.minor.val
         THEN FALSE
    ELSE IF cmp.major = 0 /\ cmp.minor.val > 0 /\ ver.patch # cmp.patch.val
         THEN ver.patch > cmp.patch.val
    ELSE IF cmp.major = 0 /\ cmp.minor.val = 0
            /\ (ver.minor # cmp.minor.val \/ ver.patch # cmp.patch.val)
         THEN FALSE
    ELSE PreGreaterEq(ver.pre, cmp.pre)

MatchesImpl(cmp, ver) ==
    CASE cmp.op \in {"Exact", "Wildcard"} -> MatchesExact(cmp, ver)
      [] cmp.op = "Greater" -> MatchesGreater(cmp, ver)
      [] cmp.op = "GreaterEq" -> MatchesExact(cmp, ver) \/ MatchesGreater(cmp, ver)
      [] cmp.op = "Less" -> MatchesLess(cmp, ver)
      [] cmp.op = "LessEq" -> MatchesExact(cmp, ver) \/ MatchesLess(cmp, ver)
      [] cmp.op = "Tilde" -> MatchesTilde(cmp, ver)
      [] cmp.op = "Caret" -> MatchesCaret(cmp, ver)

\* a version with a pre-release tag is matched only by a comparator of the
\* same major.minor.patch that has a pre-release tag itself
PreIsCompatible(cmp, ver) ==
    /\ cmp.major = ver.major
    /\ cmp.minor = Some(ver.minor)
    /\ cmp.patch = Some(ver.patch)
    /\ cmp.pre # <<>>

\* VersionReq::matches
ReqMatches(req, ver) ==
    /\ \A i \in 1..Len(req.comparators) : MatchesImpl(req.comparators[i], ver)
    /\ \/ ver.pre = <<>>
       \/ \E i \in 1..Len(req.comparators) : PreIsCompatible(req.comparators[i], ver)

\* the freshness test inverted, a slip the claims about findings must notice
is_up_to_date_inverted(ver_req, latest) == ~ReqMatches(ver_req, latest)

is_up_to_date(ver_req, latest) == ReqMatches(ver_req, latest)

OpText(op) ==
    CASE op = "Exact" -> "="
      [] op = "Greater" -> ">"
      [] op = "GreaterEq" -> ">="
      [] op = "Less" -> "<"
      [] op = "LessEq" -> "<="
      [] op = "Tilde" -> "~"
      [] op = "Caret" -> "^"
      [] op = "Wildcard" -> ""

\* Display of semver::Comparator
ComparatorToString(cmp) ==
    OpText(cmp.op) \o ToString(cmp.major)
    \o (IF cmp.minor.some
        THEN "." \o ToString(cmp.minor.val)
             \o (IF cmp.patch.some
                 THEN "." \o ToString(cmp.patch.val)
                      \o (IF cmp.pre = <<>> THEN ""
                          ELSE "-" \o CharsToString(cmp.pre))
                 ELSE IF cmp.op = "Wildcard" THEN ".*" ELSE "")
        ELSE IF cmp.op = "Wildcard" THEN ".*" ELSE "")

RECURSIVE JoinComparators(_)
JoinComparators(cs) ==
    IF Len(cs) = 1 THEN ComparatorToString(cs[1])
    ELSE ComparatorToString(cs[1]) \o ", " \o JoinComparators(Tail(cs))

\* Display of semver::VersionReq, as called at main.rs:291
ReqToString(req) ==
    IF req.comparators = <<>> THEN "*" ELSE JoinComparators(req.comparators)

\* VersionReq::parse("*"), the requirement with no comparator
ReqStar == [comparators |-> <<>>]

(***************************************************************************)
(* Dep (main.rs:74-79) and its construction from a declared dependency.    *)
(***************************************************************************)
ReqCaret01 == [comparators |-> <<Comparator("Caret", 0, Some(1), None)>>]

PkgNames == {"app", "lib"}
DepNames == {"a", "b"}

\* OptVersionReq: Any, Req with an explicit requirement, or Locked to a
\* version beside its requirement
OptReq(req) == [kind |-> "Req", req |-> req]
OptLocked(req) == [kind |-> "Locked", req |-> req]

\* the match on version_req() at main.rs:148-152 and :257-261
NormalizeReq(opt) ==
    CASE opt.kind = "Any" -> ReqStar
      [] opt.kind = "Locked" -> opt.req
      [] opt.kind = "Req" -> opt.req

\* the Dep built at main.rs:146-154 and :255-263
MkDep(name, opt, source) ==
    [name |-> name, version_req |-> NormalizeReq(opt), source_id |-> source]

\* the dependencies a manifest of the model may declare: two that differ in
\* their source alone, a second name from the registry, and a local path
DepUniverse ==
    {MkDep("a", OptReq(ReqCaret01), "Registry"),
     MkDep("a", OptLocked(ReqCaret01), "Git"),
     MkDep("b", OptReq(ReqCaret01), "Registry"),
     MkDep("b", OptReq(ReqCaret01), "Path")}

\* SourceId::is_path
is_path(source_id) == source_id = "Path"

(***************************************************************************)
(* The registry's answer to one GET .../crates/{name}/versions and         *)
(* get_latest_from_repo (main.rs:167-209) applied to it.                   *)
(***************************************************************************)
CratesResp(crate_name, num, updated_at, yanked) ==
    [crate_name |-> crate_name, num |-> num, updated_at |-> updated_at,
     yanked |-> yanked]

HttpOk(versions) == [status |-> "ok", versions |-> versions]
HttpFailure(status) == [status |-> status, versions |-> <<>>]

\* impl Default for CratesIoResp
CratesIoRespDefault ==
    [crate_name |-> "", version |-> VersionNew(0, 0, 0), last_updated |-> <<>>]

\* updated_at.split('.') ... [0]: the text before the first "."
SplitFirst(s) == SubSeq(s, 1, RunEnd(s, 1, Range(s) \ {"."}) - 1)

\* the loop body with a malformed version skipped instead of returned
VisitVersionSkipsMalformed(version, latest) ==
    IF version.yanked THEN Ok(latest)
    ELSE IF ~VersionParse(version.num).ok THEN Ok(latest)
    ELSE Ok([crate_name |-> version.crate_name,
             version |-> VersionParse(version.num).val,
             last_updated |-> SplitFirst(version.updated_at)])

\* the loop body at main.rs:195-206 for one record
VisitVersion(version, latest) ==
    IF version.yanked THEN Ok(latest)
    ELSE IF ~VersionParse(version.num).ok THEN Err("Error parsing version")
    ELSE Ok([crate_name |-> version.crate_name,
             version |-> VersionParse(version.num).val,
             last_updated |-> SplitFirst(version.updated_at)])

\* the loop over versions.iter().rev(): records i, i-1, ..., 1
RECURSIVE ScanRev(_, _, _)
ScanRev(versions, i, latest) ==
    IF i = 0 THEN Ok(latest)
    ELSE LET r == VisitVersion(versions[i], latest)
         IN  IF r.ok THEN ScanRev(versions, i - 1, r.val) ELSE r

\* the same loop without .rev(): records i, i+1, ..., Len
RECURSIVE ScanFwd(_, _, _)
ScanFwd(versions, i, latest) ==
    IF i > Len(versions) THEN Ok(latest)
    ELSE LET r == VisitVersion(versions[i], latest)
         IN  IF r.ok THEN ScanFwd(versions, i + 1, r.val) ELSE r

\* get_latest_from_repo with .rev() left out
get_latest_forward(response) ==
    CASE response.status = "network_error" -> Err("Error reaching network")
      [] response.status = "not_utf8" -> Err("Error parsing response into string")
      [] response.status = "bad_json" -> Err("Error deserializing")
      [] response.status = "ok" -> ScanFwd(response.versions, 1, CratesIoRespDefault)

get_latest_from_repo(response) ==
    CASE response.status = "network_error" -> Err("Error reaching network")
      [] response.status = "not_utf8" -> Err("Error parsing response into string")
      [] response.status = "bad_json" -> Err("Error deserializing")
      [] response.status = "ok" ->
            ScanRev(response.versions, Len(response.versions), CratesIoRespDefault)

(***************************************************************************)
(* The registry answers of the scan: what the registry holds for a name.   *)
(***************************************************************************)
V130 == <<"1", ".", "3", ".", "0">>
V015 == <<"0", ".", "1", ".", "5">>
V010 == <<"0", ".", "1", ".", "0">>
V10 == <<"1", ".", "0">>
VX == <<"x">>
Stamp1 == <<"T", "1", ".", "2", "5">>
Stamp2 == <<"T", "2">>

ScanResponses(n) ==
    { \* a withdrawn record with a malformed version above 1.3.0
      HttpOk(<<CratesResp(n, VX, Stamp1, TRUE), CratesResp(n, V130, Stamp1, FALSE),
               CratesResp(n, V010, Stamp2, FALSE)>>),
      \* 0.1.5 alone
      HttpOk(<<CratesResp(n, V015, Stamp2, FALSE)>>),
      \* a malformed version in a record that is not withdrawn
      HttpOk(<<CratesResp(n, V130, Stamp1, FALSE), CratesResp(n, V10, Stamp2, FALSE)>>),
      HttpFailure("network_error") }

Registries == {r \in [DepNames -> UNION {ScanResponses(n) : n \in DepNames}] :
                 \A n \in DepNames : r[n] \in ScanResponses(n)}

(***************************************************************************)
(* The state.                                                              *)
(***************************************************************************)
VARIABLES
    pc,          \* where main is: setup, scan, aggregate, print, done, failed
    registry,    \* DepNames -> the registry's answer for the name
    pkgOrder,    \* the packages of deps, in the order deps.par_iter() yields
    depOrder,    \* package -> its Deps, in the order crate_deps.par_iter() yields
    unit,        \* package -> per dependency: todo, fetching, done
    res,         \* package -> per dependency: the Result of its fetch, if any
    slot,        \* package -> per dependency: what the inner closure returned
    y,           \* package -> the inner collect after dedup, once it is done
    x,           \* the flattened, filtered vector of main.rs:280
    outdated,    \* CrateOutdated.outdated: package -> findings
    fetchLog,    \* the (package, index) units that issued a registry request
    renderOrder, \* the order in which Display iterated outdated
    stdout,      \* what was printed to standard output
    stderr,      \* what was printed to standard error
    exitCode,    \* -1 while running
    response,    \* FetchSpec: the response handed to get_latest_from_repo
    fetched      \* FetchSpec: its Result, once it returned

scanVars == <<pc, registry, pkgOrder, depOrder, unit, res, slot, y, x, outdated,
              fetchLog, renderOrder, stdout, stderr, exitCode>>
fetchVars == <<response, fetched>>
vars == <<scanVars, fetchVars>>

(***************************************************************************)
(* The dependency map create_cargo_manifest returns, with an iteration     *)
(* order for the HashMap and for each HashSet.                             *)
(***************************************************************************)
\* the sequences of k distinct elements of S
RECURSIVE InjSeqsOfLen(_, _)
InjSeqsOfLen(S, k) ==
    IF k = 0 THEN {<<>>}
    ELSE UNION {{Append(q, e) : e \in S \ Range(q)} : q \in InjSeqsOfLen(S, k - 1)}

InjSeqs(S, n) == UNION {InjSeqsOfLen(S, k) : k \in 0..n}

\* the maps from the packages P to dependency sequences of at most budget
\* dependencies in all
RECURSIVE DepOrders(_, _)
DepOrders(P, budget) ==
    IF P = {} THEN {<<>>}
    ELSE LET p == CHOOSE q \in P : TRUE
         IN  UNION {{(p :> q) @@ f : f \in DepOrders(P \ {p}, budget - Len(q))} :
                    q \in InjSeqs(DepUniverse, budget)}

\* a real manifest yields one package, a virtual one the workspace members
PkgOrders == InjSeqs(PkgNames, Cardinality(PkgNames)) \ {<<>>}

(***************************************************************************)
(* main (main.rs:275-334).                                                 *)
(***************************************************************************)
Init ==
    /\ pc = "setup"
    /\ registry \in Registries
    /\ pkgOrder = <<>>
    /\ depOrder = <<>>
    /\ unit = <<>>
    /\ res = <<>>
    /\ slot = <<>>
    /\ y = <<>>
    /\ x = <<>>
    /\ outdated = <<>>
    /\ fetchLog = {}
    /\ renderOrder = <<>>
    /\ stdout = ""
    /\ stderr = ""
    /\ exitCode = -1
    /\ response = HttpOk(<<>>)
    /\ fetched = None

SetupError == "Error getting manifest for project"

\* the error of create_cargo_manifest() reported, and main going on with an
\* empty map instead of returning
SetupFailsIgnored ==
    /\ pc = "setup"
    /\ pc' = "scan"
    /\ stderr' = "Error: " \o SetupError \o "\n"
    /\ UNCHANGED <<registry, pkgOrder, depOrder, unit, res, slot, y, x, outdated,
                   fetchLog, renderOrder, stdout, exitCode>>
    /\ UNCHANGED fetchVars

\* create_cargo_manifest()? fails: main returns the error before line 279
SetupFails ==
    /\ pc = "setup"
    /\ pc' = "failed"
    /\ stderr' = "Error: " \o SetupError \o "\n"
    /\ exitCode' = 1
    /\ UNCHANGED <<registry, pkgOrder, depOrder, unit, res, slot, y, x, outdated,
                   fetchLog, renderOrder, stdout>>
    /\ UNCHANGED fetchVars

\* create_cargo_manifest() returns deps
SetupSucceeds ==
    /\ pc = "setup"
    /\ \E order \in PkgOrders : \E deps \in DepOrders(Range(order), MaxUnits) :
          /\ pkgOrder' = order
          /\ depOrder' = deps
          /\ unit' = [p \in DOMAIN deps |-> [i \in 1..Len(deps[p]) |-> "todo"]]
          /\ res' = [p \in DOMAIN deps |-> [i \in 1..Len(deps[p]) |-> None]]
          /\ slot' = [p \in DOMAIN deps |-> [i \in 1..Len(deps[p]) |-> None]]
          /\ y' = [p \in DOMAIN deps |-> None]
    /\ pc' = "scan"
    /\ UNCHANGED <<registry, x, outdated, fetchLog, renderOrder, stdout, stderr, exitCode>>
    /\ UNCHANGED fetchVars

OutdatedDependency(dep, latest) ==
    [dependency_name |-> dep.name,
     version_in_toml |-> ReqToString(dep.version_req),
     latest_version |-> VersionToString(latest.version)]

\* the inner closure after the fetch returned r (main.rs:287-297)
Evaluate(crate_name, dep, r) ==
    IF ~r.ok THEN None
    ELSE IF ~is_up_to_date(dep.version_req, r.val.version)
         THEN Some(<<crate_name, OutdatedDependency(dep, r.val)>>)
    ELSE None

\* the inner closure with the test of is_path() left out
StartUnitNoPathTest(p, i) ==
    /\ pc = "scan"
    /\ unit[p][i] = "todo"
    /\ unit' = [unit EXCEPT ![p][i] = "fetching"]
    /\ fetchLog' = fetchLog \cup {<<p, i>>}
    /\ UNCHANGED <<pc, registry, pkgOrder, depOrder, res, slot, y, x, outdated,
                   renderOrder, stdout, stderr, exitCode>>
    /\ UNCHANGED fetchVars

\* the inner closure up to the registry request (main.rs:286-287, 298-300)
StartUnit(p, i) ==
    /\ pc = "scan"
    /\ unit[p][i] = "todo"
    /\ IF is_path(depOrder[p][i].source_id)
       THEN /\ unit' = [unit EXCEPT ![p][i] = "done"]
            /\ slot' = [slot EXCEPT ![p][i] = None]
            /\ UNCHANGED fetchLog
       ELSE /\ unit' = [unit EXCEPT ![p][i] = "fetching"]
            /\ fetchLog' = fetchLog \cup {<<p, i>>}
            /\ UNCHANGED slot
    /\ UNCHANGED <<pc, registry, pkgOrder, depOrder, res, y, x, outdated,
                   renderOrder, stdout, stderr, exitCode>>
    /\ UNCHANGED fetchVars

\* the closure with the error of the fetch returned from main (? in place
\* of .ok()?)
FinishUnitPropagates(p, i) ==
    /\ pc = "scan"
    /\ unit[p][i] = "fetching"
    /\ LET r == get_latest_from_repo(registry[depOrder[p][i].name])
       IN  /\ res' = [res EXCEPT ![p][i] = Some(r)]
           /\ slot' = [slot EXCEPT ![p][i] = Evaluate(p, depOrder[p][i], r)]
           /\ IF r.ok
              THEN UNCHANGED <<pc, stderr, exitCode>>
              ELSE /\ pc' = "failed"
                   /\ stderr' = "Error: " \o r.err \o "\n"
                   /\ exitCode' = 1
    /\ unit' = [unit EXCEPT ![p][i] = "done"]
    /\ UNCHANGED <<registry, pkgOrder, depOrder, y, x, outdated, fetchLog,
                   renderOrder, stdout>>
    /\ UNCHANGED fetchVars

\* get_latest_from_repo returns and the closure finishes (main.rs:287-297)
FinishUnit(p, i) ==
    /\ pc = "scan"
    /\ unit[p][i] = "fetching"
    /\ LET r == get_latest_from_repo(registry[depOrder[p][i].name])
       IN  /\ res' = [res EXCEPT ![p][i] = Some(r)]
           /\ slot' = [slot EXCEPT ![p][i] = Evaluate(p, depOrder[p][i], r)]
    /\ unit' = [unit EXCEPT ![p][i] = "done"]
    /\ UNCHANGED <<pc, registry, pkgOrder, depOrder, y, x, outdated, fetchLog,
                   renderOrder, stdout, stderr, exitCode>>
    /\ UNCHANGED fetchVars

\* Vec::dedup: of a run of equal elements the first is kept
RECURSIVE Dedup(_)
Dedup(v) ==
    IF Len(v) <= 1 THEN v
    ELSE IF v[1] = v[2] THEN Dedup(Tail(v))
    ELSE <<v[1]>> \o Dedup(Tail(v))

\* the inner collect() and y.dedup() of one package (main.rs:302-304)
CollectPackage(p) ==
    /\ pc = "scan"
    /\ y[p] = None
    /\ \A i \in 1..Len(unit[p]) : unit[p][i] = "done"
    /\ y' = [y EXCEPT ![p] = Some(Dedup(slot[p]))]
    /\ UNCHANGED <<pc, registry, pkgOrder, depOrder, unit, res, slot, x, outdated,
                   fetchLog, renderOrder, stdout, stderr, exitCode>>
    /\ UNCHANGED fetchVars

\* .filter(|outdated| outdated.is_some()).map(|o| o.unwrap())
RECURSIVE FilterUnwrap(_)
FilterUnwrap(v) ==
    IF v = <<>> THEN <<>>
    ELSE IF Head(v).some THEN <<Head(v).val>> \o FilterUnwrap(Tail(v))
    ELSE FilterUnwrap(Tail(v))

\* .flatten(): the packages' vectors joined in the order of the outer iterator
RECURSIVE Flatten(_, _)
Flatten(order, ys) ==
    IF order = <<>> THEN <<>>
    ELSE ys[Head(order)].val \o Flatten(Tail(order), ys)

\* the outer collect() (main.rs:306-309)
CollectAll ==
    /\ pc = "scan"
    /\ \A p \in DOMAIN y : y[p].some
    /\ x' = FilterUnwrap(Flatten(pkgOrder, y))
    /\ pc' = "aggregate"
    /\ UNCHANGED <<registry, pkgOrder, depOrder, unit, res, slot, y, outdated,
                   fetchLog, renderOrder, stdout, stderr, exitCode>>
    /\ UNCHANGED fetchVars

\* entry(crate_name).or_insert(Vec::new()) and push (main.rs:318-322)
Push(map, crate_name, out_dep) ==
    LET inserted == IF crate_name \in DOMAIN map THEN map
                    ELSE (crate_name :> <<>>) @@ map
    IN  [inserted EXCEPT ![crate_name] = Append(@, out_dep)]

\* the loop for (crate_name, out_dep) in x.iter() (main.rs:311-323)
RECURSIVE PushAll(_, _)
PushAll(map, v) ==
    IF v = <<>> THEN map
    ELSE PushAll(Push(map, Head(v)[1], Head(v)[2]), Tail(v))

Aggregate ==
    /\ pc = "aggregate"
    /\ outdated' = PushAll(outdated, x)
    /\ pc' = "print"
    /\ UNCHANGED <<registry, pkgOrder, depOrder, unit, res, slot, y, x, fetchLog,
                   renderOrder, stdout, stderr, exitCode>>
    /\ UNCHANGED fetchVars

(***************************************************************************)
(* impl fmt::Display for CrateOutdated (main.rs:103-130).  The markers     *)
(* stand for the box-drawing strings of main.rs:112 and main.rs:122.       *)
(***************************************************************************)
BranchMarker == "|--"
EndMarker == "+--"
UpToDateMessage == "All dependencies are up-to-date!"

FmtLine(marker, out_dep) ==
    "\t" \o marker \o " " \o out_dep.dependency_name \o ": "
    \o out_dep.version_in_toml \o " -> " \o out_dep.latest_version \o "\n"

\* the three branches at main.rs:110-125, taken with the first one's test
\* len() > 1 left out
FmtDepNoLenTest(outdated_dep, dep_num) ==
    IF dep_num = 0
    THEN FmtLine(BranchMarker, outdated_dep[dep_num + 1])
    ELSE IF dep_num > 0 /\ dep_num # Len(outdated_dep) - 1
    THEN FmtLine(BranchMarker, outdated_dep[dep_num + 1])
    ELSE FmtLine(EndMarker, outdated_dep[dep_num + 1])

\* the three branches at main.rs:110-125; dep_num counts from 0
FmtDep(outdated_dep, dep_num) ==
    IF dep_num = 0 /\ Len(outdated_dep) > 1
    THEN FmtLine(BranchMarker, outdated_dep[dep_num + 1])
    ELSE IF dep_num > 0 /\ dep_num # Len(outdated_dep) - 1
    THEN FmtLine(BranchMarker, outdated_dep[dep_num + 1])
    ELSE FmtLine(EndMarker, outdated_dep[dep_num + 1])

RECURSIVE FmtDeps(_, _)
FmtDeps(outdated_dep, dep_num) ==
    IF dep_num >= Len(outdated_dep) THEN ""
    ELSE FmtDep(outdated_dep, dep_num) \o FmtDeps(outdated_dep, dep_num + 1)

\* the outer loop over self.outdated.iter(), which yields the keys in order
RECURSIVE Display(_, _)
Display(order, map) ==
    IF order = <<>> THEN ""
    ELSE Head(order) \o "\n" \o FmtDeps(map[Head(order)], 0)
         \o Display(Tail(order), map)

\* the orders in which a HashMap of the keys K may yield them
KeyOrders(K) == InjSeqsOfLen(K, Cardinality(K))

\* main.rs:326-331 with the test of is_empty() left out
PrintAlwaysTree ==
    /\ pc = "print"
    /\ \E order \in KeyOrders(DOMAIN outdated) :
          /\ stdout' = Display(order, outdated) \o "\n"
          /\ renderOrder' = order
    /\ exitCode' = 0
    /\ pc' = "done"
    /\ UNCHANGED <<registry, pkgOrder, depOrder, unit, res, slot, y, x, outdated,
                   fetchLog, stderr>>
    /\ UNCHANGED fetchVars

\* main.rs:326-333; Display iterates the HashMap in some order of its keys
PrintReport ==
    /\ pc = "print"
    /\ \E order \in KeyOrders(DOMAIN outdated) :
          /\ IF DOMAIN outdated = {}
             THEN stdout' = UpToDateMessage \o "\n"
             ELSE stdout' = Display(order, outdated) \o "\n"
          /\ renderOrder' = order
    /\ exitCode' = 0
    /\ pc' = "done"
    /\ UNCHANGED <<registry, pkgOrder, depOrder, unit, res, slot, y, x, outdated,
                   fetchLog, stderr>>
    /\ UNCHANGED fetchVars

Next ==
    \/ SetupFails
    \/ SetupSucceeds
    \/ \E p \in DOMAIN unit : \E i \in 1..Len(unit[p]) : StartUnit(p, i)
    \/ \E p \in DOMAIN unit : \E i \in 1..Len(unit[p]) : FinishUnit(p, i)
    \/ \E p \in DOMAIN y : CollectPackage(p)
    \/ CollectAll
    \/ Aggregate
    \/ PrintReport

Spec == Init /\ [][Next]_vars

(***************************************************************************)
(* get_latest_from_repo alone, on every response of at most MaxRecords     *)
(* records.                                                                *)
(***************************************************************************)
V200 == <<"2", ".", "0", ".", "0">>
V100rc == <<"1", ".", "0", ".", "0", "-", "r", "c">>
FetchNums == {V130, V200, V100rc, V10}
FetchRecords ==
    {CratesResp("a", n, t, w) : n \in FetchNums, t \in {Stamp1, Stamp2}, w \in BOOLEAN}

\* the responses a request may get: a list of at most n records, or a failure
\* of the network, of the encoding or of the JSON
FetchResponses(n) ==
    {HttpOk(v) : v \in UNION {[1..k -> FetchRecords] : k \in 0..n}}
    \cup {HttpFailure(f) : f \in {"network_error", "not_utf8", "bad_json"}}

FetchInit ==
    /\ pc = "fetch"
    /\ registry = CHOOSE r \in Registries : TRUE
    /\ pkgOrder = <<>>
    /\ depOrder = <<>>
    /\ unit = <<>>
    /\ res = <<>>
    /\ slot = <<>>
    /\ y = <<>>
    /\ x = <<>>
    /\ outdated = <<>>
    /\ fetchLog = {}
    /\ renderOrder = <<>>
    /\ stdout = ""
    /\ stderr = ""
    /\ exitCode = -1
    /\ response \in FetchResponses(MaxRecords)
    /\ fetched = None

FetchCall ==
    /\ pc = "fetch"
    /\ fetched = None
    /\ fetched' = Some(get_latest_from_repo(response))
    /\ UNCHANGED response
    /\ UNCHANGED scanVars

FetchNext == FetchCall

FetchSpec == FetchInit /\ [][FetchNext]_vars

(***************************************************************************)
(* Vocabulary of the properties.                                           *)
(***************************************************************************)
Packages == DOMAIN depOrder
UnitsOf(p) == 1..Len(depOrder[p])
Dep(p, i) == depOrder[p][i]
Findings(p) == IF p \in DOMAIN outdated THEN outdated[p] ELSE <<>>

\* the fetch of unit (p, i) returned, and with an error
Fetched(p, i) == res[p][i].some
FetchFailed(p, i) == res[p][i].some /\ ~res[p][i].val.ok
\* the fetch of unit (p, i) selected a version the requirement does not match
Stale(p, i) ==
    /\ res[p][i].some
    /\ res[p][i].val.ok
    /\ ~ReqMatches(Dep(p, i).version_req, res[p][i].val.val.version)
\* the finding of unit (p, i), from the fetch that returned for it
FindingOf(p, i) ==
    [dependency_name |-> Dep(p, i).name,
     version_in_toml |-> ReqToString(Dep(p, i).version_req),
     latest_version |-> VersionToString(res[p][i].val.val.version)]

\* a record whose version string is no semantic version
Malformed(record) == ~VersionParse(record.num).ok

\* the elements of a set of numbers in increasing order
RECURSIVE Ascending(_)
Ascending(S) ==
    IF S = {} THEN <<>>
    ELSE LET m == CHOOSE a \in S : \A b \in S : a <= b
         IN  <<m>> \o Ascending(S \ {m})

(***************************************************************************)
(* C1: a dependency whose source is a local path never issues a registry   *)
(* request and never yields a finding: its unit is not in the fetch log,   *)
(* no fetch returned for it, its result is None, and every finding of the  *)
(* vector x and of the report was returned by the unit of a dependency     *)
(* that is not a local path.                                               *)
(***************************************************************************)
C1_PathNeverFetched ==
    /\ \A p \in Packages : \A i \in UnitsOf(p) :
          is_path(Dep(p, i).source_id) =>
             /\ <<p, i>> \notin fetchLog
             /\ unit[p][i] # "fetching"
             /\ res[p][i] = None
             /\ slot[p][i] = None
    /\ \A k \in 1..Len(x) :
          \E i \in UnitsOf(x[k][1]) :
             /\ Dep(x[k][1], i).source_id # "Path"
             /\ slot[x[k][1]][i] = Some(x[k])
    /\ \A p \in DOMAIN outdated : \A k \in 1..Len(outdated[p]) :
          \E i \in UnitsOf(p) :
             /\ Dep(p, i).source_id # "Path"
             /\ slot[p][i] = Some(<<p, outdated[p][k]>>)

\* the scan is over for a package with a local-path dependency whose name
\* the registry would answer with a version its requirement does not match,
\* beside a registry dependency that is reported
C1_Witness ==
    /\ pc = "done"
    /\ \E p \in Packages : \E i, j \in UnitsOf(p) :
          /\ is_path(Dep(p, i).source_id)
          /\ get_latest_from_repo(registry[Dep(p, i).name]).ok
          /\ ~ReqMatches(Dep(p, i).version_req,
                         get_latest_from_repo(registry[Dep(p, i).name]).val.version)
          /\ ~is_path(Dep(p, j).source_id)
          /\ Stale(p, j)
          /\ Len(Findings(p)) = 1

(***************************************************************************)
(* C2: for a response whose version strings all parse, the result is the   *)
(* record first in received order among those not withdrawn (its name, its *)
(* version, its timestamp up to the first "."); with no such record it is  *)
(* the default: version 0.0.0, empty name, empty timestamp.                *)
(***************************************************************************)
C2_FirstLiveRecordSelected ==
    (/\ fetched.some
     /\ response.status = "ok"
     /\ \A i \in 1..Len(response.versions) : ~Malformed(response.versions[i]))
    =>
    LET v == response.versions
        live == {i \in 1..Len(v) : ~v[i].yanked}
    IN  IF live = {}
        THEN fetched.val =
                Ok([crate_name |-> "",
                    version |-> [major |-> 0, minor |-> 0, patch |-> 0,
                                 pre |-> <<>>, build |-> <<>>],
                    last_updated |-> <<>>])
        ELSE LET k == CHOOSE i \in live : \A j \in live : i <= j
                 got == fetched.val.val
                 n == Len(got.last_updated)
             IN  /\ fetched.val.ok
                 /\ got.crate_name = v[k].crate_name
                 /\ got.version = VersionParse(v[k].num).val
                 /\ got.last_updated = SubSeq(v[k].updated_at, 1, n)
                 /\ \A c \in 1..n : got.last_updated[c] # "."
                 /\ n = Len(v[k].updated_at) \/ v[k].updated_at[n + 1] = "."

\* a response returned whose first record is withdrawn and whose second and
\* third are not and differ in version and timestamp
C2_Witness ==
    /\ fetched.some
    /\ response.status = "ok"
    /\ Len(response.versions) = 3
    /\ \A i \in 1..3 : ~Malformed(response.versions[i])
    /\ response.versions[1].yanked
    /\ ~response.versions[2].yanked
    /\ ~response.versions[3].yanked
    /\ response.versions[1].num = V200
    /\ response.versions[2].num # response.versions[3].num
    /\ response.versions[2].updated_at = Stamp1
    /\ response.versions[3].updated_at = Stamp2

\* the scan of main together with the calls of get_latest_from_repo on every
\* bounded response
ScanFetchInit == Init \/ FetchInit
ScanFetchNext == Next \/ FetchNext
ScanFetchSpec == ScanFetchInit /\ [][ScanFetchNext]_vars

C4_FindingIffStale ==
    pc = "done" =>
       /\ DOMAIN outdated \subseteq Packages
       /\ \A p \in Packages :
             Range(Findings(p)) =
                {FindingOf(p, i) :
                   i \in {j \in UnitsOf(p) :
                            /\ Dep(p, j).source_id # "Path"
                            /\ res[p][j].some
                            /\ res[p][j].val.ok
                            /\ ~ReqMatches(Dep(p, j).version_req,
                                           res[p][j].val.val.version)}}

\* main is done for a package with a unit whose selected version matches its
\* requirement beside one that is reported
C4_Witness ==
    /\ pc = "done"
    /\ \E p \in Packages : \E i, j \in UnitsOf(p) :
          /\ res[p][i].some
          /\ res[p][i].val.ok
          /\ ReqMatches(Dep(p, i).version_req, res[p][i].val.val.version)
          /\ Stale(p, j)
          /\ Findings(p) = <<FindingOf(p, j)>>

(***************************************************************************)
(* The report main builds from a dependency map iterated in a given order, *)
(* against the registry of the state.                                      *)
(***************************************************************************)
SlotsOf(p, deps) ==
    [i \in 1..Len(deps) |->
        IF is_path(deps[i].source_id) THEN None
        ELSE Evaluate(p, deps[i], get_latest_from_repo(registry[deps[i].name]))]

ReportOf(order, deps) ==
    PushAll(<<>>, FilterUnwrap(Flatten(order,
        [p \in DOMAIN deps |-> Some(Dedup(SlotsOf(p, deps[p])))])))

\* the dependency map of the state in every iteration order of its sets
Reorderings ==
    {d \in [Packages -> UNION {KeyOrders(Range(depOrder[p])) : p \in Packages}] :
        \A p \in Packages : Range(d[p]) = Range(depOrder[p])}

(***************************************************************************)
(* C5: the report is the same in every run on the same dependency sets and *)
(* registry answers: when main is done, its report is the report of every  *)
(* iteration order of the package map and of the dependency sets.          *)
(***************************************************************************)
C5_ReportIndependentOfOrder ==
    pc = "done" =>
       \A order \in KeyOrders(Packages) : \A deps \in Reorderings :
          ReportOf(order, deps) = outdated

(***************************************************************************)
(* C6 as claimed: a response with a malformed version string in any        *)
(* record, withdrawn or not, makes get_latest_from_repo return the parse   *)
(* error.                                                                  *)
(***************************************************************************)
C6_AnyMalformedRecordFails ==
    (/\ fetched.some
     /\ response.status = "ok"
     /\ \E i \in 1..Len(response.versions) : Malformed(response.versions[i]))
    => fetched.val = Err("Error parsing version")

\* a record of the list v that is not withdrawn and is malformed
LiveMalformed(v) == \E i \in 1..Len(v) : ~v[i].yanked /\ Malformed(v[i])

(***************************************************************************)
(* C6 as amended: get_latest_from_repo returns the parse error exactly     *)
(* when a record that is not withdrawn carries a malformed version string  *)
(* (the version string of a withdrawn record is not parsed); in the scan   *)
(* that error leaves the unit without a finding, main does not fail, and   *)
(* the units that are stale are reported.                                  *)
(***************************************************************************)
C6_LiveMalformedRecordFails ==
    /\ (fetched.some /\ response.status = "ok") =>
          (fetched.val = Err("Error parsing version")
             <=> LiveMalformed(response.versions))
    /\ \A p \in Packages : \A i \in UnitsOf(p) :
          (Fetched(p, i) /\ registry[Dep(p, i).name].status = "ok") =>
             /\ res[p][i].val = Err("Error parsing version")
                   <=> LiveMalformed(registry[Dep(p, i).name].versions)
             /\ res[p][i].val = Err("Error parsing version") =>
                   slot[p][i] = None /\ pc # "failed" /\ stderr = ""
    /\ pc = "done" =>
          \A p \in Packages : \A i \in UnitsOf(p) :
             Stale(p, i) =>
                \E k \in 1..Len(Findings(p)) : Findings(p)[k] = FindingOf(p, i)

\* main is done for a package in which one fetch returned the parse error
\* and another, whose response holds a malformed withdrawn record, is reported
C6_Witness ==
    /\ pc = "done"
    /\ \E p \in Packages : \E i, j \in UnitsOf(p) :
          /\ res[p][i] = Some(Err("Error parsing version"))
          /\ Stale(p, j)
          /\ \E k \in 1..Len(registry[Dep(p, j).name].versions) :
                /\ registry[Dep(p, j).name].versions[k].yanked
                /\ Malformed(registry[Dep(p, j).name].versions[k])
          /\ Findings(p) = <<FindingOf(p, j)>>

\* the lines of the findings fs from the k-th on: the last with the end
\* marker, the others with the branch marker
RECURSIVE ExpectedLines(_, _)
ExpectedLines(fs, k) ==
    IF k > Len(fs) THEN ""
    ELSE "\t" \o (IF k = Len(fs) THEN EndMarker ELSE BranchMarker) \o " "
         \o fs[k].dependency_name \o ": " \o fs[k].version_in_toml
         \o " -> " \o fs[k].latest_version \o "\n"
         \o ExpectedLines(fs, k + 1)

RECURSIVE ExpectedTree(_)
ExpectedTree(order) ==
    IF order = <<>> THEN ""
    ELSE Head(order) \o "\n" \o ExpectedLines(outdated[Head(order)], 1)
         \o ExpectedTree(Tail(order))

(***************************************************************************)
(* C7: a report with findings is printed package by package, each package  *)
(* of the report once: its name on a line, then its n findings in the      *)
(* order of its list, the first n-1 with the branch marker and the n-th    *)
(* with the end marker, each as "name: requirement -> version".            *)
(***************************************************************************)
C7_TreeRendering ==
    (pc = "done" /\ DOMAIN outdated # {}) =>
       /\ Range(renderOrder) = DOMAIN outdated
       /\ Len(renderOrder) = Cardinality(DOMAIN outdated)
       /\ stdout = ExpectedTree(renderOrder) \o "\n"

\* a report printed in which a package has three findings
C7_Witness ==
    /\ pc = "done"
    /\ \E p \in DOMAIN outdated : Len(outdated[p]) = 3

(***************************************************************************)
(* C8: nothing is printed before main is done; when it is done it has      *)
(* exited with 0 and printed either the up-to-date message, exactly when   *)
(* no unit of any package returned a finding, or else the tree of a report *)
(* that is not empty and in which every package has a finding.             *)
(***************************************************************************)
C8_MessageOrTree ==
    /\ pc # "done" => stdout = ""
    /\ pc = "done" =>
          /\ exitCode = 0
          /\ stderr = ""
          /\ stdout = "All dependencies are up-to-date!\n"
                <=> \A p \in Packages : \A i \in UnitsOf(p) : slot[p][i] = None
          /\ stdout # "All dependencies are up-to-date!\n" =>
                /\ DOMAIN outdated # {}
                /\ Range(renderOrder) = DOMAIN outdated
                /\ stdout = Display(renderOrder, outdated) \o "\n"
                /\ \A p \in DOMAIN outdated : Len(outdated[p]) >= 1

\* the message printed after a scan in which a fetch failed, a fetched
\* version matched and a local path was skipped
C8_Witness ==
    /\ pc = "done"
    /\ stdout = "All dependencies are up-to-date!\n"
    /\ \E p \in Packages : \E i \in UnitsOf(p) : FetchFailed(p, i)
    /\ \E p \in Packages : \E i \in UnitsOf(p) : Fetched(p, i) /\ res[p][i].val.ok
    /\ \E p \in Packages : \E i \in UnitsOf(p) : is_path(Dep(p, i).source_id)

(***************************************************************************)
(* C9: before create_cargo_manifest has returned no request is issued and  *)
(* nothing is printed; once its error is reported main has failed with     *)
(* exit code 1, and no request is ever issued and nothing printed to       *)
(* standard output; a request is issued only in a run whose setup          *)
(* succeeded.                                                              *)
(***************************************************************************)
C9_SetupErrorBeforeNetwork ==
    /\ pc = "setup" => fetchLog = {} /\ stdout = "" /\ Packages = {}
    /\ (pc = "failed" \/ stderr # "") =>
          /\ pc = "failed"
          /\ stderr # ""
          /\ exitCode = 1
          /\ fetchLog = {}
          /\ stdout = ""
          /\ outdated = <<>>
    /\ fetchLog # {} =>
          /\ pc \in {"scan", "aggregate", "print", "done"}
          /\ \A u \in fetchLog : u[1] \in Packages /\ u[2] \in UnitsOf(u[1])

\* the setup failed
C9_Witness == pc = "failed" /\ stderr = "Error: " \o SetupError \o "\n"

(***************************************************************************)
(* C10: in the findings reported for a package no two consecutive ones are *)
(* equal in name, requirement and version.                                 *)
(***************************************************************************)
C10_NoEqualNeighbours ==
    pc = "done" =>
       \A p \in DOMAIN outdated : \A k \in 1..(Len(outdated[p]) - 1) :
          outdated[p][k] # outdated[p][k + 1]

\* the units of p whose finding is reported: those that returned a finding
\* and are first in the package or differ from the result before them
Kept(p) ==
    Ascending({i \in UnitsOf(p) :
                 slot[p][i].some /\ (i = 1 \/ slot[p][i] # slot[p][i - 1])})

(***************************************************************************)
(* What main does in place of C10: the results of a package are            *)
(* deduplicated in iteration order before those without a finding are      *)
(* dropped.  The findings reported for a package are, in order, those of   *)
(* the units that returned a finding other than the result of the unit     *)
(* just before them; two consecutive reported findings are equal only when *)
(* a unit without a finding was processed between the two units they come  *)
(* from.                                                                   *)
(***************************************************************************)
DedupBeforeFilter ==
    pc = "done" =>
       \A p \in Packages :
          /\ Len(Findings(p)) = Len(Kept(p))
          /\ \A k \in 1..Len(Kept(p)) :
                Findings(p)[k] = slot[p][Kept(p)[k]].val[2]
          /\ \A k \in 1..(Len(Kept(p)) - 1) :
                Findings(p)[k] = Findings(p)[k + 1] =>
                   \E j \in (Kept(p)[k] + 1)..(Kept(p)[k + 1] - 1) :
                      slot[p][j] = None

=============================================================================
